---- MODULE Spec2Model ----
(***************************************************************************)
(* The annotation pipeline of "EDA NoteBooks/call_nlp_api.py":             *)
(*   load_checkpoint  - reads the shard files of a checkpoint directory,   *)
(*   call_nl_api      - scans the table, dispatches batches of unseen      *)
(*                      records to a worker pool, merges and persists the  *)
(*                      results shard by shard,                            *)
(*   get_sentiment / get_entities - the worker run for one record,         *)
(*   add_sentiment_data / add_entity_data - the result flattener.          *)
(*                                                                         *)
(* A Python dict is modelled as the sequence of its <<key, value>> pairs   *)
(* in insertion order, a record id by a number, a JSON object by a record  *)
(* (a key is present iff it is in the record's DOMAIN), and a score or     *)
(* magnitude by an integer number of tenths (5 is 0.5, 12 is 1.2).         *)
(***************************************************************************)
EXTENDS Integers, Sequences, FiniteSets, TLC

\* ------------------------------------------------------------------ bounds
\* The table of a run holds the records 1..n, in this order, n <= MaxId.
MaxId == 3
\* batch_size is drawn from 1..MaxBatch, max_result_size from 1..MaxShard.
MaxBatch == 3
MaxShard == 2
\* A checkpoint directory found at start-up holds at most this many files.
MaxInitShards == 2

\* The flattener is given shard sequences of at most MaxFlatEntries entries
\* in at most MaxFlatEntries shards, over the record ids 1..MaxFlatId.
MaxFlatId == 2
MaxFlatEntries == 2

\* Runs that resume from the directory an earlier run left: at most MaxRuns
\* runs on one directory, on tables of the records 1..n, n <= MaxResumedId.
MaxRuns == 2
MaxResumedId == 4
\* The clock is read in steps of Tick seconds; a step that takes time is
\* taken while no more than MaxElapsed seconds have passed since batch_timer
\* was set.
Tick == 30
MaxElapsed == 90

Ids == 1..MaxResumedId

\* ------------------------------------------------------- program constants
\* The minute of "if delta < 60: time.sleep(60 - delta)".
RateLimit == 60

\* The width of "{:05d}" in the shard file name.
PadWidth == 5

\* -------------------------------------------------------------- dict model
Keys(d) == {d[i][1] : i \in 1..Len(d)}

Has(d, k) == \E i \in 1..Len(d) : d[i][1] = k

Get(d, k) == d[CHOOSE i \in 1..Len(d) : d[i][1] = k][2]

\* A write that replaces what the dict held by the one entry written.
Overwrite(d, k, v) == <<<<k, v>>>>

\* d[k] = v: an existing key keeps its place, a new key goes last.
SetItem(d, k, v) ==
    IF Has(d, k)
    THEN [i \in 1..Len(d) |-> IF d[i][1] = k THEN <<k, v>> ELSE d[i]]
    ELSE Append(d, <<k, v>>)

\* d.update(e)
RECURSIVE Update(_, _)
Update(d, e) ==
    IF e = <<>> THEN d
    ELSE Update(SetItem(d, Head(e)[1], Head(e)[2]), Tail(e))

\* ------------------------------------------------------ annotation results
\* The string "language error" stored in place of an annotation.
LanguageError == [sentinel |-> "language error"]

\* json.loads(MessageToJson(result)) for record id's document. Distinct
\* documents are given distinct responses, so that a result stored under
\* another record's id is visible.
ApiResponse(id) == [documentSentiment |-> [score |-> id, magnitude |-> 10 + id]]

\* ------------------------------------------------------------- file names
RECURSIVE Digits(_)
Digits(n) == IF n < 10 THEN <<n>> ELSE Append(Digits(n \div 10), n % 10)

RECURSIVE ZeroPad(_, _)
ZeroPad(s, w) == IF Len(s) >= w THEN s ELSE ZeroPad(<<0>> \o s, w)

\* "{:05d}.json".format(n), as the digits before ".json"
FileName(n) == ZeroPad(Digits(n), PadWidth)

\* String order on file names (the common ".json" sorts below every digit).
RECURSIVE LexLess(_, _)
LexLess(a, b) ==
    IF a = <<>> THEN b # <<>>
    ELSE IF b = <<>> THEN FALSE
    ELSE IF Head(a) # Head(b) THEN Head(a) < Head(b)
    ELSE LexLess(Tail(a), Tail(b))

\* sorted(os.listdir(path))
RECURSIVE SortedNames(_)
SortedNames(S) ==
    IF S = {} THEN <<>>
    ELSE LET m == CHOOSE x \in S : \A y \in S \ {x} : LexLess(x, y)
         IN  <<m>> \o SortedNames(S \ {m})

\* The directory's files are a set of <<name, content>> pairs, its other
\* entries (subdirectories) a set of names.
FileNames(fs) == {f[1] : f \in fs}

\* os.listdir(path)
ListDir(fs, ds) == FileNames(fs) \cup ds

ReadFile(fs, name) == (CHOOSE f \in fs : f[1] = name)[2]

\* open(path, "w+"); json.dump(content, f)
WriteFile(fs, name, content) ==
    {f \in fs : f[1] # name} \cup {<<name, content>>}

\* ------------------------------------------------------------------- state
VARIABLES
    dir_exists,        \* os.path.exists(checkpoints_path)
    files,             \* the files of the checkpoint directory
    subdirs,           \* the entries of the directory that are not files
    module,            \* the file call_nl_api is taken from
    pc,                \* where the coordinator is
    df,                \* the table's index: the record ids in table order
    stored_results,    \* the shard sequence
    same_dict,         \* per shard, the first position holding the same
                       \* dict object
    batch_size, max_result_size,
    pos,               \* the row df.iterrows() is at
    batch,             \* the ids of the records accumulated
    batch_results,     \* the dict the name batch_results is bound to
    results_bound,     \* whether the name batch_results is bound at all
    pending,           \* the tasks of the current pool that have not run
    running,           \* the tasks a worker of the pool is running
    pool_failed,       \* an exception is waiting to leave the try block
    calls,             \* how often np_api_fn was invoked per record
    outcome,           \* how each record's API call ended
    loaded,            \* the shard sequence as load_checkpoint returned it
    touched,           \* the shards the run created or merged results into
    elapsed,           \* time.time() - batch_timer, in seconds
    since_dispatch,    \* the seconds since the latest dispatch of the run
                       \* began, -1 before its first dispatch
    runs,              \* the runs started on the checkpoint directory
    tick,              \* the seconds a step that takes time takes
    columns,           \* the columns the flattener has set on df
    sentiment,         \* add_sentiment_data's locals when it was last left
    entity,            \* add_entity_data's locals when it was last left
    called,            \* the flattener function called last, and whether
                       \* it had been called before
    train_pc,          \* the statement of train.py's main to execute next
    model_columns,     \* the keys of model_config['columns']
    dataset,           \* the AutoML dataset as the service holds it
    automl_model       \* the AutoML model as the service holds it

diskvars == <<dir_exists, files, subdirs>>
params == <<module, batch_size, max_result_size>>
timevars == <<elapsed, since_dispatch>>
runvars == <<params, pc, stored_results, same_dict, pos, batch, batch_results,
             results_bound, pending, running, pool_failed, calls, outcome,
             loaded, touched, timevars, runs, tick>>
flatvars == <<columns, sentiment, entity, called>>
trainvars == <<train_pc, model_columns, dataset, automl_model>>
vars == <<diskvars, df, runvars, flatvars, trainvars>>

\* ------------------------------------------------- checkpoint directories
RECURSIVE AscendingPairs(_, _)
AscendingPairs(S, res) ==
    IF S = {} THEN <<>>
    ELSE LET m == CHOOSE x \in S : \A y \in S : x <= y
         IN  <<<<m, res[m]>>>> \o AscendingPairs(S \ {m}, res)

\* The directories a run may find: none, an empty one, or the files
\* 00001.json .. 0000n.json an earlier run left, no id in two of them (Init
\* keeps those whose files are within the run's max_result_size).
FilesOf(n, a, kind) ==
    { <<FileName(s),
        AscendingPairs({id \in 1..MaxId : a[id] = s},
                       [id \in 1..MaxId |->
                           IF kind[id] = "ok" THEN ApiResponse(id)
                           ELSE LanguageError])>> : s \in 1..n }

InitDirectories ==
    {[exists |-> FALSE, files |-> {}], [exists |-> TRUE, files |-> {}]}
    \cup { [exists |-> TRUE, files |-> FilesOf(n, a, kind)] :
             n \in 1..MaxInitShards, a \in [1..MaxId -> 0..MaxInitShards],
             kind \in [1..MaxId -> {"ok", "err"}] }

\* The subdirectories a directory may hold: none, one whose name sorts below
\* every shard file's ("0"), or one whose name sorts above them ("9").
InitSubdirs == { {}, {<<0>>}, {<<9>>} }

\* -------------------------------------------------------- load_checkpoint
\* The for loop of load_checkpoint. stored_result is read from an entry that
\* is a file and appended for every entry: an entry that is not a file
\* appends the dict of the file before it once more (the same object), and
\* raises UnboundLocalError when no file came before it.
RECURSIVE LoadLoop(_, _, _)
LoadLoop(names, fs, acc) ==
    IF names = <<>> \/ acc.raised THEN acc
    ELSE IF Head(names) \in FileNames(fs)
    THEN LoadLoop(Tail(names), fs,
                  [acc EXCEPT !.shards = Append(@, ReadFile(fs, Head(names))),
                              !.same = Append(@, Len(acc.shards) + 1)])
    ELSE IF acc.shards = <<>>
    THEN [acc EXCEPT !.raised = TRUE]
    ELSE LoadLoop(Tail(names), fs,
                  [acc EXCEPT !.shards = Append(@, @[Len(@)]),
                              !.same = Append(@, @[Len(@)])])

\* What load_checkpoint does to a directory: whether it raises, whether the
\* directory exists afterwards, the shard sequence it returns and, per
\* shard, the first position that holds the same dict object.
load_checkpoint(exists, fs, ds) ==
    IF ~(exists /\ ListDir(fs, ds) # {})
    THEN \* os.makedirs(path) raises FileExistsError on an existing directory
         IF exists
         THEN [raised |-> TRUE, exists |-> TRUE, shards |-> <<>>,
               same |-> <<>>]
         ELSE [raised |-> FALSE, exists |-> TRUE, shards |-> << <<>> >>,
               same |-> <<1>>]
    ELSE LET out == LoadLoop(SortedNames(ListDir(fs, ds)), fs,
                             [raised |-> FALSE, shards |-> <<>>,
                              same |-> <<>>])
         IN  [raised |-> out.raised, exists |-> TRUE,
              shards |-> IF out.raised THEN <<>> ELSE out.shards,
              same |-> IF out.raised THEN <<>> ELSE out.same]

\* load_checkpoint, and the first statements of call_nl_api on its result.
LoadCheckpoint ==
    /\ pc = "load"
    /\ LET r == load_checkpoint(dir_exists, files, subdirs)
       IN  /\ dir_exists' = r.exists
           /\ stored_results' = r.shards
           /\ same_dict' = r.same
           /\ loaded' = r.shards
           /\ pc' = IF r.raised THEN "crashed" ELSE "scan"
    /\ elapsed' = 0
    /\ UNCHANGED <<files, subdirs, df, params, pos, batch, batch_results,
                   results_bound, pending, pool_failed, calls, outcome,
                   touched, since_dispatch, runs, tick, flatvars, running, trainvars>>

\* ------------------------------------------------------------- call_nl_api
\* A duplicate check that looks at the newest shard only.
SeenInLastShard(id, shards) ==
    Len(shards) > 0 /\ Has(shards[Len(shards)], id)

\* any([complaint_id in res for res in stored_results])
Seen(id, shards) == \E s \in 1..Len(shards) : Has(shards[s], id)

\* Whether the for loop's body goes on to dispatch the batch. In nlp_api.py
\* the dispatch is not part of the loop: its body ends with the test.
DispatchesInLoop(mod, size, limit) == mod = "call_nlp_api" /\ ~(size < limit)

\* The time a step of the scan or a worker of the pool may take.
Durations == {0, tick}

\* A reading of the clock d seconds after the reading t (-1: no reading).
Later(t, d) == IF t = -1 THEN -1 ELSE t + d

\* One iteration of the for loop up to the dispatch: a seen record is
\* skipped, an unseen one joins the batch, and a full batch is dispatched.
ScanRecord ==
    /\ pc = "scan"
    /\ pos <= Len(df)
    /\ IF Seen(df[pos], stored_results)
       THEN /\ pos' = pos + 1
            /\ UNCHANGED <<batch, pc>>
       ELSE /\ batch' = Append(batch, df[pos])
            /\ IF DispatchesInLoop(module, Len(batch'), batch_size)
               THEN pos' = pos /\ pc' = "loop_pool"
               ELSE pos' = pos + 1 /\ pc' = pc
    /\ \E d \in Durations :
          /\ elapsed + d <= MaxElapsed
          /\ elapsed' = elapsed + d
          /\ since_dispatch' = Later(since_dispatch, d)
    /\ UNCHANGED <<diskvars, df, params, stored_results, same_dict,
                   batch_results, results_bound, pending, pool_failed, calls,
                   outcome, loaded, touched, runs, tick, flatvars, running, trainvars>>

\* The try block up to starmap: the pool, the manager and its dict are
\* created, or one of the three raises before batch_results is rebound.
\* nlp_api.py enters its try block once, when the loop has ended.
PoolStart ==
    /\ \/ pc = "loop_pool"
       \/ module = "nlp_api" /\ pc = "scan" /\ pos > Len(df)
    /\ \/ /\ batch_results' = <<>>
          /\ results_bound' = TRUE
          /\ pending' = {batch[i] : i \in 1..Len(batch)}
          /\ pool_failed' = FALSE
       \/ /\ pool_failed' = TRUE
          /\ pending' = {}
          /\ UNCHANGED <<batch_results, results_bound>>
    /\ pc' = "loop_workers"
    /\ since_dispatch' = 0
    /\ UNCHANGED <<diskvars, df, params, stored_results, same_dict, pos, batch,
                   calls, outcome, loaded, touched, elapsed, runs, tick,
                   flatvars, running, trainvars>>

\* The same three calls after the loop, outside any try block.
DrainStart ==
    /\ module = "call_nlp_api"
    /\ pc = "scan"
    /\ pos > Len(df)
    /\ \/ /\ batch_results' = <<>>
          /\ results_bound' = TRUE
          /\ pending' = {batch[i] : i \in 1..Len(batch)}
          /\ pool_failed' = FALSE
          /\ pc' = "drain_workers"
       \/ /\ pool_failed' = TRUE
          /\ pc' = "crashed"
          /\ UNCHANGED <<batch_results, results_bound, pending>>
    /\ since_dispatch' = 0
    /\ UNCHANGED <<diskvars, df, params, stored_results, same_dict, pos, batch,
                   calls, outcome, loaded, touched, elapsed, runs, tick,
                   flatvars, running, trainvars>>

ApiOutcomes == {"ok", "api_error", "raised"}

\* A worker that prints the API error and stores nothing.
np_api_fn_without_sentinel(id, shared_results, how) ==
    IF how = "ok" THEN SetItem(shared_results, id, ApiResponse(id))
    ELSE shared_results

\* get_sentiment / get_entities: what the worker leaves in shared_results
\* when the API call returned, raised GoogleAPICallError, or when the worker
\* raised anything else.
np_api_fn(id, shared_results, how) ==
    CASE how = "ok" -> SetItem(shared_results, id, ApiResponse(id))
      [] how = "api_error" -> SetItem(shared_results, id, LanguageError)
      [] OTHER -> shared_results

\* Whether the worker's call raises into the pool.
WorkerRaises(how) == how = "raised"

\* One task of starmap. A task that raises ends its chunk: the tasks after
\* it in the chunk never run.
Worker(id) ==
    /\ pc \in {"loop_workers", "drain_workers"}
    /\ id \in pending
    /\ \E how \in ApiOutcomes, skipped \in SUBSET (pending \ {id}) :
          /\ ~WorkerRaises(how) => skipped = {}
          /\ batch_results' = np_api_fn(id, batch_results, how)
          /\ pool_failed' = (pool_failed \/ WorkerRaises(how))
          /\ pending' = pending \ ({id} \cup skipped)
          /\ outcome' = [outcome EXCEPT ![id] = how]
    /\ calls' = [calls EXCEPT ![id] = @ + 1]
    /\ \E d \in Durations :
          /\ elapsed + d <= MaxElapsed
          /\ elapsed' = elapsed + d
          /\ since_dispatch' = Later(since_dispatch, d)
    /\ UNCHANGED <<diskvars, df, params, pc, stored_results, same_dict, pos,
                   batch, results_bound, loaded, touched, runs, tick,
                   flatvars, running, trainvars>>

\* A worker takes a task of the pool: np_api_fn is called for the record.
WorkerBegin(id) ==
    /\ pc \in {"loop_workers", "drain_workers"}
    /\ id \in pending
    /\ pending' = pending \ {id}
    /\ running' = running \cup {id}
    /\ calls' = [calls EXCEPT ![id] = @ + 1]
    /\ UNCHANGED <<diskvars, df, params, pc, stored_results, same_dict, pos,
                   batch, batch_results, results_bound, pool_failed, outcome,
                   loaded, touched, timevars, runs, tick, flatvars, trainvars>>

\* The call of np_api_fn ends: the API's answer or the sentinel is stored
\* under the record's id, or the call raises and ends its chunk.
WorkerEnd(id) ==
    /\ pc \in {"loop_workers", "drain_workers"}
    /\ id \in running
    /\ \E how \in ApiOutcomes, skipped \in SUBSET pending :
          /\ ~WorkerRaises(how) => skipped = {}
          /\ batch_results' = np_api_fn(id, batch_results, how)
          /\ pool_failed' = (pool_failed \/ WorkerRaises(how))
          /\ pending' = pending \ skipped
          /\ outcome' = [outcome EXCEPT ![id] = how]
    /\ running' = running \ {id}
    /\ \E d \in Durations :
          /\ elapsed + d <= MaxElapsed
          /\ elapsed' = elapsed + d
          /\ since_dispatch' = Later(since_dispatch, d)
    /\ UNCHANGED <<diskvars, df, params, pc, stored_results, same_dict, pos,
                   batch, results_bound, calls, loaded, touched, runs, tick,
                   flatvars, trainvars>>

\* A starmap that raises as soon as one task has failed.
StarmapFailsFast(left, failed) == left = {} \/ failed

\* pool.starmap returns, or raises the first exception of a task, once no
\* task of the batch is left to run or running.
StarmapEnds(left, failed) == left = {}

\* stored_results[-1].update(batch_results): every position of the list that
\* holds the last shard's dict object shows the update.
UpdateLast(shards, same, results) ==
    LET last == Update(shards[Len(shards)], results)
    IN  [p \in 1..Len(shards) |->
            IF same[p] = same[Len(shards)] THEN last ELSE shards[p]]

\* len(stored_results[-1]) + len(batch_results) > max_result_size
Overflows(shards, results, max_size) ==
    Len(shards[Len(shards)]) + Len(results) > max_size

\* if len(stored_results[-1]) + len(batch_results) > max_result_size:
\*     stored_results.append({})
\* stored_results[-1].update(batch_results)
MergeLoop(shards, same, results, max_size) ==
    IF Overflows(shards, results, max_size)
    THEN Append(shards, Update(<<>>, results))
    ELSE UpdateLast(shards, same, results)

\* The dict objects of the list after the merge of a loop batch.
SameAfterLoop(shards, same, results, max_size) ==
    IF Overflows(shards, results, max_size)
    THEN Append(same, Len(same) + 1)
    ELSE same

\* stored_results[-1].update(batch_results)
MergeDrain(shards, same, results) == UpdateLast(shards, same, results)

\* Whether len(batch_results) raises: the name was never bound, or (in
\* nlp_api.py, which leaves the manager's with block first) the manager that
\* serves the dict has shut down.
ResultsUnreadable(mod, bound) == ~bound \/ mod = "nlp_api"

\* delta = time.time() - batch_timer; if delta < 60: time.sleep(60 - delta)
SleepTime(delta) == IF delta < RateLimit THEN RateLimit - delta ELSE 0

\* A batch that keeps its records after the dispatch.
KeptBatch == batch

\* batch = []
EmptyBatch == <<>>

\* The rest of a loop iteration once starmap has returned or raised: merge,
\* persist, wait out the minute, start a new batch. In nlp_api.py nothing
\* after the try block is reached.
MergeBatch ==
    /\ pc = "loop_workers"
    /\ StarmapEnds(pending \cup running, pool_failed)
    /\ IF ResultsUnreadable(module, results_bound)
       THEN /\ pc' = "crashed"
            /\ UNCHANGED <<files, stored_results, same_dict, pos, batch,
                           touched, timevars>>
       ELSE /\ stored_results' = MergeLoop(stored_results, same_dict,
                                           batch_results, max_result_size)
            /\ same_dict' = SameAfterLoop(stored_results, same_dict,
                                          batch_results, max_result_size)
            /\ touched' = touched \cup {Len(stored_results')}
            /\ files' = WriteFile(files, FileName(Len(stored_results')),
                                  stored_results'[Len(stored_results')])
            /\ since_dispatch' = Later(since_dispatch, SleepTime(elapsed))
            /\ elapsed' = 0
            /\ batch' = EmptyBatch
            /\ pos' = pos + 1
            /\ pc' = "scan"
    /\ pool_failed' = FALSE
    /\ UNCHANGED <<dir_exists, subdirs, df, params, batch_results,
                   results_bound, pending, calls, outcome, loaded, runs,
                   tick, flatvars, running, trainvars>>

\* The end of call_nl_api: an exception of the last starmap leaves the
\* function, otherwise the last results are merged, persisted and returned.
MergeRest ==
    /\ pc = "drain_workers"
    /\ StarmapEnds(pending \cup running, pool_failed)
    /\ IF pool_failed
       THEN /\ pc' = "crashed"
            /\ UNCHANGED <<files, stored_results, touched>>
       ELSE /\ stored_results' = MergeDrain(stored_results, same_dict,
                                            batch_results)
            /\ touched' = touched \cup {Len(stored_results')}
            /\ files' = WriteFile(files, FileName(Len(stored_results')),
                                  stored_results'[Len(stored_results')])
            /\ pc' = "done"
    /\ UNCHANGED <<dir_exists, subdirs, df, params, same_dict, pos, batch,
                   batch_results, results_bound, pending, pool_failed, calls,
                   outcome, loaded, timevars, runs, tick, flatvars, running, trainvars>>

\* The tables a run may be given: the records 1..n in this order, n <= max.
Tables(max) == {[i \in 1..n |-> i] : n \in 0..max}

\* The script is run again on the directory the run before it left, on
\* the table as the query returns it then.
Restart ==
    /\ pc \in {"done", "crashed"}
    /\ runs < MaxRuns
    /\ runs' = runs + 1
    /\ df' \in Tables(MaxResumedId)
    /\ pc' = "load"
    /\ stored_results' = <<>>
    /\ same_dict' = <<>>
    /\ loaded' = <<>>
    /\ pos' = 1
    /\ batch' = <<>>
    /\ batch_results' = <<>>
    /\ results_bound' = FALSE
    /\ pending' = {}
    /\ pool_failed' = FALSE
    /\ calls' = [id \in Ids |-> 0]
    /\ outcome' = [id \in Ids |-> "none"]
    /\ touched' = {}
    /\ elapsed' = 0
    /\ since_dispatch' = -1
    /\ UNCHANGED <<diskvars, params, tick, flatvars, running, trainvars>>

\* -------------------------------------------------------- the flattener
\* A test for the sentinel that never matches.
IsErrorNever(result) == FALSE

\* result == "language error"
IsError(result) == result = LanguageError

\* key in obj, for a JSON object
In(key, obj) == key \in DOMAIN obj

\* Lists kept from one call to the next instead of being started empty.
KeptSentimentLists == [sentiment EXCEPT !.status = "none"]

\* The locals of add_sentiment_data as they are set before its loop.
NoSentimentLists ==
    [index |-> <<>>, sentiment_scores |-> <<>>, sentiment_magnitudes |-> <<>>,
     status |-> "none"]

\* One pass of add_sentiment_data's inner loop, for the entry <<id, result>>.
\* result["documentSentiment"] on a result without that key is a KeyError.
SentimentStep(acc, e) ==
    LET result == e[2]
        seen == [acc EXCEPT !.index = Append(@, e[1])]
    IN  IF IsError(result)
        THEN [seen EXCEPT !.sentiment_scores = Append(@, 0),
                          !.sentiment_magnitudes = Append(@, 0)]
        ELSE IF ~In("documentSentiment", result)
        THEN [seen EXCEPT !.status = "KeyError"]
        ELSE LET ds == result.documentSentiment
                 score == IF In("score", ds) THEN ds.score ELSE 0
                 magnitude == IF In("magnitude", ds) THEN ds.magnitude ELSE 0
             IN  [seen EXCEPT !.sentiment_scores = Append(@, score),
                              !.sentiment_magnitudes = Append(@, magnitude)]

\* The locals of add_entity_data as they are set before its loop.
NoEntityLists ==
    [index |-> <<>>, entities_names |-> <<>>, entities_types |-> <<>>,
     entities_sent_scrs |-> <<>>, entities_sent_mags |-> <<>>,
     status |-> "none"]

NoEntity ==
    [entity_names |-> <<>>, entity_types |-> <<>>, entity_sent_scrs |-> <<>>,
     entity_sent_mags |-> <<>>, status |-> "none"]

\* One pass of the loop over result["entities"].
EntityStep(acc, ent) ==
    IF ~In("sentiment", ent) \/ ~In("name", ent) \/ ~In("type", ent)
    THEN [acc EXCEPT !.status = "KeyError"]
    ELSE LET score == IF In("score", ent.sentiment)
                      THEN ent.sentiment.score ELSE 0
             magnitude == IF In("magnitude", ent.sentiment)
                          THEN ent.sentiment.magnitude ELSE 0
         IN  [acc EXCEPT !.entity_names = Append(@, ent.name),
                         !.entity_types = Append(@, ent.type),
                         !.entity_sent_scrs = Append(@, score),
                         !.entity_sent_mags = Append(@, magnitude)]

RECURSIVE EntityLoop(_, _)
EntityLoop(acc, ents) ==
    IF ents = <<>> \/ acc.status = "KeyError" THEN acc
    ELSE EntityLoop(EntityStep(acc, Head(ents)), Tail(ents))

\* One pass of add_entity_data's inner loop, for the entry <<id, result>>.
EntitiesStep(acc, e) ==
    LET result == e[2]
        seen == [acc EXCEPT !.index = Append(@, e[1])]
        found == IF IsError(result) \/ ~In("entities", result) THEN NoEntity
                 ELSE EntityLoop(NoEntity, result.entities)
    IN  IF found.status = "KeyError"
        THEN [seen EXCEPT !.status = "KeyError"]
        ELSE [seen EXCEPT !.entities_names = Append(@, found.entity_names),
                          !.entities_types = Append(@, found.entity_types),
                          !.entities_sent_scrs = Append(@, found.entity_sent_scrs),
                          !.entities_sent_mags = Append(@, found.entity_sent_mags)]

\* The entries with the newest shard first.
RECURSIVE ItemsNewestFirst(_)
ItemsNewestFirst(shards) ==
    IF shards = <<>> THEN <<>>
    ELSE ItemsNewestFirst(Tail(shards)) \o Head(shards)

\* for stored_result in stored_results: for ... in stored_result.items()
RECURSIVE Items(_)
Items(shards) ==
    IF shards = <<>> THEN <<>> ELSE Head(shards) \o Items(Tail(shards))

RECURSIVE SentimentLoop(_, _)
SentimentLoop(acc, entries) ==
    IF entries = <<>> \/ acc.status = "KeyError" THEN acc
    ELSE SentimentLoop(SentimentStep(acc, Head(entries)), Tail(entries))

RECURSIVE EntitiesLoop(_, _)
EntitiesLoop(acc, entries) ==
    IF entries = <<>> \/ acc.status = "KeyError" THEN acc
    ELSE EntitiesLoop(EntitiesStep(acc, Head(entries)), Tail(entries))

HasDuplicates(seq) == \E i, j \in 1..Len(seq) : i # j /\ seq[i] = seq[j]

\* The column df[name] = pd.Series(values, labels) sets on a table with the
\* rows `rows`: a row's cell is <<v>> for the value v under the row's id, and
\* <<>> (NaN) when the labels do not hold the id.
Reindex(values, labels, rows) ==
    [r \in 1..Len(rows) |->
        IF \E k \in 1..Len(labels) : labels[k] = rows[r]
        THEN <<values[CHOOSE k \in 1..Len(labels) : labels[k] = rows[r]]>>
        ELSE <<>>]

\* df[name] = column: a column of that name is replaced.
SetColumn(cols, name, column) ==
    {c \in cols : c[1] # name} \cup {<<name, column>>}

Column(cols, name) == (CHOOSE c \in cols : c[1] = name)[2]

\* add_sentiment_data(df, stored_results). Aligning a Series whose labels
\* repeat with the frame's unique index raises ValueError.
AddSentimentData ==
    /\ pc = "flatten"
    /\ LET out == SentimentLoop(NoSentimentLists, Items(stored_results))
       IN  IF out.status = "KeyError"
           THEN sentiment' = out /\ columns' = columns
           ELSE IF HasDuplicates(out.index)
           THEN /\ sentiment' = [out EXCEPT !.status = "ValueError"]
                /\ columns' = columns
           ELSE /\ sentiment' = [out EXCEPT !.status = "returned"]
                /\ columns' =
                     SetColumn(
                       SetColumn(columns, "sentiment_score",
                                 Reindex(out.sentiment_scores, out.index, df)),
                       "sentiment_magnitude",
                       Reindex(out.sentiment_magnitudes, out.index, df))
    /\ called' = <<"add_sentiment_data", sentiment.status # "none">>
    /\ UNCHANGED <<diskvars, df, runvars, entity, trainvars>>

\* add_entity_data(df, stored_results)
AddEntityData ==
    /\ pc = "flatten"
    /\ LET out == EntitiesLoop(NoEntityLists, Items(stored_results))
       IN  IF out.status = "KeyError"
           THEN entity' = out /\ columns' = columns
           ELSE IF HasDuplicates(out.index)
           THEN /\ entity' = [out EXCEPT !.status = "ValueError"]
                /\ columns' = columns
           ELSE /\ entity' = [out EXCEPT !.status = "returned"]
                /\ columns' =
                     SetColumn(SetColumn(SetColumn(SetColumn(columns,
                       "entities",
                       Reindex(out.entities_names, out.index, df)),
                       "entity_types",
                       Reindex(out.entities_types, out.index, df)),
                       "entity_sentiment_scores",
                       Reindex(out.entities_sent_scrs, out.index, df)),
                       "entity_sentiment_magnitudes",
                       Reindex(out.entities_sent_mags, out.index, df))
    /\ called' = <<"add_entity_data", entity.status # "none">>
    /\ UNCHANGED <<diskvars, df, runvars, sentiment, trainvars>>

\* ---------------------------------------------------------------- train.py
\* The columns of the table the dataset is imported from are 1..MaxColumns.
MaxColumns == 3

\* The dataset before client.create_dataset.
NoDataset ==
    [created |-> FALSE, import |-> "none", column_specs |-> {}, roles |-> {}]

\* A result() that returns whether or not the operation has completed.
NotWaiting(operation) == TRUE

\* operation.result() waits until the long running operation has completed.
Completed(operation) == operation \in {"done", "failed"}

\* An exception leaves main.
TrainRaises ==
    /\ train_pc' = "raised"
    /\ UNCHANGED <<model_columns, dataset, automl_model>>

\* dataset = client.create_dataset(...)
CreateDataset ==
    /\ train_pc = "create_dataset"
    /\ \/ /\ train_pc' = "import_data"
          /\ dataset' = [dataset EXCEPT !.created = TRUE]
          /\ UNCHANGED <<model_columns, automl_model>>
       \/ TrainRaises
    /\ UNCHANGED <<diskvars, df, runvars, flatvars>>

\* import_data_operation = client.import_data(dataset=dataset, ...)
ImportData ==
    /\ train_pc = "import_data"
    /\ \/ /\ train_pc' = "import_result"
          /\ dataset' = [dataset EXCEPT !.import = "running"]
          /\ UNCHANGED <<model_columns, automl_model>>
       \/ TrainRaises
    /\ UNCHANGED <<diskvars, df, runvars, flatvars>>

\* The service ends the import, with the data imported or with an error.
ImportProgress ==
    /\ dataset.import = "running"
    /\ \E end \in {"done", "failed"} :
          dataset' = [dataset EXCEPT !.import = end]
    /\ UNCHANGED <<train_pc, model_columns, automl_model>>
    /\ UNCHANGED <<diskvars, df, runvars, flatvars>>

\* import_data_operation.result(), and the for statement when
\* model_config['columns'] is empty.
ImportResult ==
    /\ train_pc = "import_result"
    /\ Completed(dataset.import)
    /\ train_pc' = IF dataset.import = "failed" THEN "raised"
                   ELSE IF model_columns = {} THEN "set_time_column"
                   ELSE "update_column_spec"
    /\ UNCHANGED <<model_columns, dataset, automl_model>>
    /\ UNCHANGED <<diskvars, df, runvars, flatvars>>

\* One pass of the loop over model_config['columns'].items():
\* client.update_column_spec(dataset=dataset, ...) for the next key.
UpdateColumnSpec ==
    /\ train_pc = "update_column_spec"
    /\ LET todo == model_columns \ dataset.column_specs
           column == CHOOSE c \in todo : \A d \in todo : c <= d
       IN  \/ /\ dataset' = [dataset EXCEPT !.column_specs = @ \cup {column}]
              /\ train_pc' = IF todo = {column} THEN "set_time_column"
                             ELSE "update_column_spec"
              /\ UNCHANGED <<model_columns, automl_model>>
           \/ TrainRaises
    /\ UNCHANGED <<diskvars, df, runvars, flatvars>>

\* client.set_time_column, set_target_column, set_test_train_column and
\* set_weight_column (dataset=dataset, ...): the role is set on the dataset
\* and main goes on to `then`.
SetRole(at, role, then) ==
    /\ train_pc = at
    /\ \/ /\ dataset' = [dataset EXCEPT !.roles = @ \cup {role}]
          /\ train_pc' = then
          /\ UNCHANGED <<model_columns, automl_model>>
       \/ TrainRaises
    /\ UNCHANGED <<diskvars, df, runvars, flatvars>>

SetTimeColumn == SetRole("set_time_column", "time", "set_target_column")

SetTargetColumn ==
    SetRole("set_target_column", "target", "set_test_train_column")

SetTestTrainColumn ==
    SetRole("set_test_train_column", "split", "set_weight_column")

SetWeightColumn == SetRole("set_weight_column", "weight", "create_model")

\* create_model_response = client.create_model(..., dataset=dataset, ...)
CreateModel ==
    /\ train_pc = "create_model"
    /\ \/ /\ automl_model' = "running"
          /\ train_pc' = "model_result"
          /\ UNCHANGED <<model_columns, dataset>>
       \/ TrainRaises
    /\ UNCHANGED <<diskvars, df, runvars, flatvars>>

\* The service ends the training, with a model or with an error.
TrainingProgress ==
    /\ automl_model = "running"
    /\ automl_model' \in {"done", "failed"}
    /\ UNCHANGED <<train_pc, model_columns, dataset>>
    /\ UNCHANGED <<diskvars, df, runvars, flatvars>>

\* create_model_response.result()
ModelResult ==
    /\ train_pc = "model_result"
    /\ Completed(automl_model)
    /\ train_pc' = IF automl_model = "failed" THEN "raised" ELSE "returned"
    /\ UNCHANGED <<model_columns, dataset, automl_model>>
    /\ UNCHANGED <<diskvars, df, runvars, flatvars>>

\* train.py is not running.
TrainIdle ==
    /\ train_pc = "idle"
    /\ model_columns = {}
    /\ dataset = NoDataset
    /\ automl_model = "none"

\* --------------------------------------------------------- specification
\* Before the flattener is called: no column set, no list built.
FlatIdle ==
    /\ columns = {}
    /\ sentiment = [index |-> <<>>, sentiment_scores |-> <<>>,
                    sentiment_magnitudes |-> <<>>, status |-> "none"]
    /\ entity = [index |-> <<>>, entities_names |-> <<>>,
                 entities_types |-> <<>>, entities_sent_scrs |-> <<>>,
                 entities_sent_mags |-> <<>>, status |-> "none"]
    /\ called = <<"none", FALSE>>

\* Before load_checkpoint is called in the first run.
Fresh ==
    /\ pc = "load"
    /\ runs = 1
    /\ elapsed = 0
    /\ since_dispatch = -1
    /\ stored_results = <<>>
    /\ same_dict = <<>>
    /\ loaded = <<>>
    /\ pos = 1
    /\ batch = <<>>
    /\ batch_results = <<>>
    /\ results_bound = FALSE
    /\ pending = {}
    /\ running = {}
    /\ pool_failed = FALSE
    /\ calls = [id \in Ids |-> 0]
    /\ outcome = [id \in Ids |-> "none"]
    /\ touched = {}
    /\ FlatIdle
    /\ TrainIdle

Modules == {"call_nlp_api", "nlp_api"}

\* One run on any directory, its steps taking no measurable time.
Init ==
    /\ df \in Tables(MaxId)
    /\ module \in Modules
    /\ batch_size \in 1..MaxBatch
    /\ max_result_size \in 1..MaxShard
    /\ \E d \in InitDirectories :
          /\ \A f \in d.files : Len(f[2]) <= max_result_size
          /\ dir_exists = d.exists
          /\ files = d.files
          /\ subdirs \in {ds \in InitSubdirs : d.exists \/ ds = {}}
    /\ tick = 0
    /\ Fresh

Next ==
    \/ LoadCheckpoint
    \/ ScanRecord
    \/ PoolStart
    \/ \E id \in Ids : Worker(id)
    \/ MergeBatch
    \/ DrainStart
    \/ MergeRest

Spec == Init /\ [][Next]_vars

\* One run on a directory that does not exist yet, its steps taking no time
\* or Tick seconds each.
InitClock ==
    /\ df \in Tables(MaxId)
    /\ module \in Modules
    /\ batch_size \in 1..MaxBatch
    /\ max_result_size \in 1..MaxShard
    /\ dir_exists = FALSE
    /\ files = {}
    /\ subdirs = {}
    /\ tick = Tick
    /\ Fresh

SpecClock == InitClock /\ [][Next]_vars

\* Runs on a directory that does not exist before the first of them.
InitResume ==
    /\ df \in Tables(MaxResumedId)
    /\ module \in Modules
    /\ batch_size \in 1..MaxBatch
    /\ max_result_size \in 1..MaxShard
    /\ dir_exists = FALSE
    /\ files = {}
    /\ subdirs = {}
    /\ tick = 0
    /\ Fresh

\* One run on such a directory. The coordinator is a sequential program and
\* the pool runs every task it was handed: a step that can be taken is
\* taken.
SpecLive == InitResume /\ [][Next]_vars /\ WF_vars(Next)

NextResume == Next \/ Restart

\* One run on such a directory in which the calls of the workers of a pool
\* overlap in time.
NextPool ==
    \/ LoadCheckpoint
    \/ ScanRecord
    \/ PoolStart
    \/ \E id \in Ids : WorkerBegin(id)
    \/ \E id \in Ids : WorkerEnd(id)
    \/ MergeBatch
    \/ DrainStart
    \/ MergeRest

SpecPool == InitResume /\ [][NextPool]_vars

SpecResume == InitResume /\ [][NextResume]_vars

\* ------------------------------------------------ the flattener's inputs
FlatIds == 1..MaxFlatId

EntityFull ==
    [name |-> "bank", type |-> "ORGANIZATION",
     sentiment |-> [score |-> -2, magnitude |-> 4]]
\* A neutral entity: MessageToJson leaves out fields at their default.
EntityNeutral == [name |-> "fee", type |-> "OTHER", sentiment |-> <<>>]
\* An entity of type UNKNOWN, the enum's default.
EntityUntyped == [name |-> "it", sentiment |-> [magnitude |-> 3]]

FlatResults ==
    { LanguageError,
      [documentSentiment |-> [score |-> 5, magnitude |-> 12]],
      [documentSentiment |-> [magnitude |-> 12]],
      [documentSentiment |-> [score |-> -3]],
      [language |-> "en"],
      [entities |-> <<EntityFull, EntityNeutral>>, language |-> "en"],
      [entities |-> <<EntityUntyped>>, language |-> "en"] }

\* The shards cut out of the entries es by the shard number cut[i] of each.
ShardsOf(es, cut, n) ==
    [s \in 1..n |->
        SubSeq(es, 1 + Cardinality({i \in 1..Len(es) : cut[i] < s}),
                   Cardinality({i \in 1..Len(es) : cut[i] <= s}))]

\* The keys of a dict are unique.
IsDict(shard) == ~HasDuplicates([i \in 1..Len(shard) |-> shard[i][1]])

\* The table holds every id, last id first, or the first id alone: its order
\* is not the shards' order, and a shard may hold ids the table lacks.
FlatTables == { [i \in 1..MaxFlatId |-> MaxFlatId + 1 - i], <<1>> }

\* Any shard sequence within the bounds; an id may be in two shards.
InitFlat ==
    /\ pc = "flatten"
    /\ module = "call_nlp_api"
    /\ \E k \in 0..MaxFlatEntries, n \in 1..MaxFlatEntries :
         \E es \in [1..k -> FlatIds \X FlatResults], cut \in [1..k -> 1..n] :
            /\ \A i, j \in 1..k : i < j => cut[i] <= cut[j]
            /\ \A x \in 1..n : IsDict(ShardsOf(es, cut, n)[x])
            /\ stored_results = ShardsOf(es, cut, n)
    /\ df \in FlatTables
    /\ dir_exists = FALSE
    /\ files = {}
    /\ subdirs = {}
    /\ same_dict = [s \in 1..Len(stored_results) |-> s]
    /\ runs = 1
    /\ tick = 0
    /\ elapsed = 0
    /\ since_dispatch = -1
    /\ batch_size = 1
    /\ max_result_size = 1
    /\ loaded = <<>>
    /\ pos = 1
    /\ batch = <<>>
    /\ batch_results = <<>>
    /\ results_bound = FALSE
    /\ pending = {}
    /\ running = {}
    /\ pool_failed = FALSE
    /\ calls = [id \in Ids |-> 0]
    /\ outcome = [id \in Ids |-> "none"]
    /\ touched = {}
    /\ FlatIdle
    /\ TrainIdle

NextFlat == AddSentimentData \/ AddEntityData

SpecFlat == InitFlat /\ [][NextFlat]_vars

\* train.py's main with any configured columns, from the creation of the
\* dataset on; no checkpoint directory is involved.
InitTrain ==
    /\ pc = "train"
    /\ module = "call_nlp_api"
    /\ df = <<>>
    /\ stored_results = <<>>
    /\ same_dict = <<>>
    /\ dir_exists = FALSE
    /\ files = {}
    /\ subdirs = {}
    /\ runs = 1
    /\ tick = 0
    /\ elapsed = 0
    /\ since_dispatch = -1
    /\ batch_size = 1
    /\ max_result_size = 1
    /\ loaded = <<>>
    /\ pos = 1
    /\ batch = <<>>
    /\ batch_results = <<>>
    /\ results_bound = FALSE
    /\ pending = {}
    /\ running = {}
    /\ pool_failed = FALSE
    /\ calls = [id \in Ids |-> 0]
    /\ outcome = [id \in Ids |-> "none"]
    /\ touched = {}
    /\ FlatIdle
    /\ train_pc = "create_dataset"
    /\ model_columns \in SUBSET (1..MaxColumns)
    /\ dataset = NoDataset
    /\ automl_model = "none"

NextTrain ==
    \/ CreateDataset
    \/ ImportData
    \/ ImportProgress
    \/ ImportResult
    \/ UpdateColumnSpec
    \/ SetTimeColumn
    \/ SetTargetColumn
    \/ SetTestTrainColumn
    \/ SetWeightColumn
    \/ CreateModel
    \/ TrainingProgress
    \/ ModelResult

SpecTrain == InitTrain /\ [][NextTrain]_vars

\* ------------------------------------------------------------------ claims
LastShard(shards) == shards[Len(shards)]

AllKeys(shards) == UNION {Keys(shards[s]) : s \in 1..Len(shards)}

\* A step that merges a batch's results into the shard sequence.
IsLoopMerge == pc = "loop_workers" /\ pc' = "scan"
IsDrainMerge == pc = "drain_workers" /\ pc' = "done"

\* C1: the annotation function is never invoked for a record whose id is in
\* a shard loaded from the checkpoint directory, whatever is stored under
\* it; when every id of the table is in a loaded shard, every batch is
\* empty, no task is handed to a pool and no API call is made.
C1_SeenRecordsNeverAnnotated ==
    /\ \A id \in Ids : Seen(id, loaded) => calls[id] = 0
    /\ (pc # "load" /\ \A i \in 1..Len(df) : Seen(df[i], loaded))
          => /\ \A id \in Ids : calls[id] = 0
             /\ batch = <<>>
             /\ pending = {}

\* A finished run that found an annotation and an error sentinel in its
\* loaded shards and annotated a third record.
C1_Witness ==
    /\ pc = "done"
    /\ \E a, b, c \in Ids :
          /\ \E s \in 1..Len(loaded) :
                /\ Has(loaded[s], a)
                /\ Get(loaded[s], a) = ApiResponse(a)
          /\ \E s \in 1..Len(loaded) :
                /\ Has(loaded[s], b)
                /\ Get(loaded[s], b) = LanguageError
          /\ calls[c] = 1

\* C2: from loaded shards with pairwise disjoint id sets, every record id
\* is in at most one shard of the shard sequence, after every step of
\* call_nl_api.
C2_IdInAtMostOneShard ==
    \A s, t \in 1..Len(stored_results) :
        s # t => Keys(stored_results[s]) \cap Keys(stored_results[t]) = {}

\* C3: load_checkpoint on a directory that is absent, or present without
\* entries, returns one empty shard, leaves the directory existing and
\* raises nothing.
C3_LoadOfEmptyDirectory ==
    [][(pc = "load" /\ ListDir(files, subdirs) = {})
          => /\ stored_results' = << <<>> >>
             /\ dir_exists'
             /\ pc' # "crashed"]_vars

\* C4: whenever batch results with N >= 2 new entries are merged while the
\* last shard holds max_result_size - 1 entries, a new shard is appended and
\* takes the results; the shard that was last is left as it was.
C4_OverflowStartsNewShard ==
    [][((IsLoopMerge \/ IsDrainMerge)
          /\ Len(LastShard(stored_results)) = max_result_size - 1
          /\ Cardinality(Keys(batch_results) \ AllKeys(stored_results)) >= 2)
          => /\ Len(stored_results') = Len(stored_results) + 1
             /\ stored_results'[Len(stored_results)] = LastShard(stored_results)
             /\ LastShard(stored_results') = batch_results]_vars

\* C5: every shard the run created or merged results into holds at most
\* max_result_size entries, at every point of the run.
C5_TouchedShardsBounded ==
    \A s \in touched : Len(stored_results[s]) <= max_result_size

\* C6: a worker whose API call fails stores the error sentinel under its
\* record's id and raises nothing; when no worker of the batch raised, every
\* record of the batch has its own result at the merge, and the merge puts
\* all of them into the last shard, which is written to its file.
C6_ApiFailureIsRecorded ==
    [][/\ \A id \in Ids :
            (calls'[id] = calls[id] + 1 /\ outcome'[id] = "api_error")
               => /\ batch_results' = SetItem(batch_results, id, LanguageError)
                  /\ pool_failed' = pool_failed
                  /\ pending' = pending \ {id}
                  /\ pc' = pc
       /\ ((IsLoopMerge \/ IsDrainMerge) /\ ~pool_failed)
            => /\ Keys(batch_results) = {batch[i] : i \in 1..Len(batch)}
               /\ \A id \in Keys(batch_results) :
                     /\ Get(batch_results, id) =
                           (IF outcome[id] = "api_error" THEN LanguageError
                            ELSE ApiResponse(id))
                     /\ Has(LastShard(stored_results'), id)
                     /\ Get(LastShard(stored_results'), id) =
                           Get(batch_results, id)
               /\ ReadFile(files', FileName(Len(stored_results'))) =
                     LastShard(stored_results')]_vars

\* A loop batch of two records, the first failed in the API, the second
\* annotated, merged and on disk.
C6_Witness ==
    /\ pc = "scan"
    /\ batch = <<>>
    /\ ~pool_failed
    /\ \E a, b \in Ids :
          /\ outcome[a] = "api_error" /\ outcome[b] = "ok"
          /\ Keys(batch_results) = {a, b}
          /\ Get(LastShard(stored_results), a) = LanguageError
          /\ Get(LastShard(stored_results), b) = ApiResponse(b)
          /\ ReadFile(files, FileName(Len(stored_results))) =
                LastShard(stored_results)

\* The entry the flattener's loops reach k-th.
Entry(k) == Items(stored_results)[k]

EntryOf(id) ==
    Entry(CHOOSE k \in 1..Len(Items(stored_results)) : Entry(k)[1] = id)

Defined(obj, key) == key \in DOMAIN obj

\* C7: a record whose stored result is the error sentinel gets score 0 and
\* magnitude 0 from add_sentiment_data and four empty lists from
\* add_entity_data, in the lists built and in the columns set on the table.
C7_SentinelYieldsDefaults ==
    /\ \A k \in 1..Len(sentiment.index) :
          Entry(k)[2] = LanguageError
             => /\ k <= Len(sentiment.sentiment_scores)
                /\ sentiment.sentiment_scores[k] = 0
                /\ sentiment.sentiment_magnitudes[k] = 0
    /\ \A k \in 1..Len(entity.index) :
          Entry(k)[2] = LanguageError
             => /\ k <= Len(entity.entities_names)
                /\ entity.entities_names[k] = <<>>
                /\ entity.entities_types[k] = <<>>
                /\ entity.entities_sent_scrs[k] = <<>>
                /\ entity.entities_sent_mags[k] = <<>>
    /\ \A r \in 1..Len(df) :
          (df[r] \in AllKeys(stored_results) /\ EntryOf(df[r])[2] = LanguageError)
             => /\ sentiment.status = "returned"
                   => /\ Column(columns, "sentiment_score")[r] = <<0>>
                      /\ Column(columns, "sentiment_magnitude")[r] = <<0>>
                /\ entity.status = "returned"
                   => /\ Column(columns, "entities")[r] = << <<>> >>
                      /\ Column(columns, "entity_types")[r] = << <<>> >>
                      /\ Column(columns, "entity_sentiment_scores")[r] = << <<>> >>
                      /\ Column(columns, "entity_sentiment_magnitudes")[r] = << <<>> >>

\* Both functions have returned on shards that hold a sentinel for a row of
\* the table, next to an annotation.
C7_Witness ==
    /\ sentiment.status = "returned"
    /\ entity.status = "returned"
    /\ \E k, m \in 1..Len(sentiment.index) :
          /\ Entry(k)[2] = LanguageError
          /\ Entry(m)[2] # LanguageError
          /\ \E r \in 1..Len(df) : df[r] = Entry(k)[1]

\* The score and magnitude a stored result carries, 0 where it carries none.
ScoreOf(result) ==
    IF Defined(result, "documentSentiment")
       /\ Defined(result.documentSentiment, "score")
    THEN result.documentSentiment.score ELSE 0

MagnitudeOf(result) ==
    IF Defined(result, "documentSentiment")
       /\ Defined(result.documentSentiment, "magnitude")
    THEN result.documentSentiment.magnitude ELSE 0

\* The shards {"1": {"documentSentiment": {"score": 0.5, "magnitude": 1.2}}}
\* and {"2": "language error"}.
ExampleShards ==
    << << <<1, [documentSentiment |-> [score |-> 5, magnitude |-> 12]]>> >>,
       << <<2, LanguageError>> >> >>

\* C8: when add_sentiment_data returns it has emitted one score and one
\* magnitude per record id of the shard sequence, in the order of the shards
\* and of each shard's entries, each the record's document sentiment score or
\* magnitude, and every row of the table has its own record's values; it
\* returns whenever every result is the sentinel or carries a document
\* sentiment and no id is in two shards. For the example shards the lists are
\* [0.5, 0] and [1.2, 0] for the ids ["1", "2"].
C8_OneScorePerRecordInOrder ==
    LET items == Items(stored_results)
        ids == [k \in 1..Len(items) |-> items[k][1]]
    IN  /\ sentiment.status = "returned"
           => /\ sentiment.index = ids
              /\ Len(sentiment.index) = Cardinality(AllKeys(stored_results))
              /\ Len(sentiment.sentiment_scores) = Len(items)
              /\ Len(sentiment.sentiment_magnitudes) = Len(items)
              /\ \A k \in 1..Len(items) :
                    /\ sentiment.sentiment_scores[k] = ScoreOf(items[k][2])
                    /\ sentiment.sentiment_magnitudes[k] = MagnitudeOf(items[k][2])
              /\ \A r \in 1..Len(df) :
                    df[r] \in AllKeys(stored_results)
                       => /\ Column(columns, "sentiment_score")[r] =
                                <<ScoreOf(EntryOf(df[r])[2])>>
                          /\ Column(columns, "sentiment_magnitude")[r] =
                                <<MagnitudeOf(EntryOf(df[r])[2])>>
        /\ (sentiment.status # "none"
            /\ ~HasDuplicates(ids)
            /\ \A k \in 1..Len(items) :
                  \/ items[k][2] = LanguageError
                  \/ Defined(items[k][2], "documentSentiment"))
           => sentiment.status = "returned"
        /\ (sentiment.status # "none" /\ stored_results = ExampleShards)
           => /\ sentiment.index = <<1, 2>>
              /\ sentiment.sentiment_scores = <<5, 0>>
              /\ sentiment.sentiment_magnitudes = <<12, 0>>

\* add_sentiment_data has returned on the example shards, for the table with
\* the rows "2", "1".
C8_Witness ==
    /\ stored_results = ExampleShards
    /\ sentiment.status = "returned"
    /\ df = <<2, 1>>
    /\ Column(columns, "sentiment_score") = << <<0>>, <<5>> >>
    /\ Column(columns, "sentiment_magnitude") = << <<0>>, <<12>> >>

\* C9: for a record whose annotation lacks the document sentiment, its score
\* or its magnitude, the entity list, or the sentiment score or magnitude of
\* an entity, the flattener does not fail and emits 0 for the score or
\* magnitude and an empty list for the entities.
C9_AbsentFieldsDefault ==
    /\ \A k \in 1..Len(sentiment.index) :
          LET result == Entry(k)[2]
          IN  result # LanguageError
                 => /\ k <= Len(sentiment.sentiment_scores)
                    /\ sentiment.sentiment_scores[k] = ScoreOf(result)
                    /\ sentiment.sentiment_magnitudes[k] = MagnitudeOf(result)
    /\ \A k \in 1..Len(entity.index) :
          LET result == Entry(k)[2]
          IN  result # LanguageError
                 => /\ k <= Len(entity.entities_names)
                    /\ ~Defined(result, "entities")
                          => /\ entity.entities_names[k] = <<>>
                             /\ entity.entities_types[k] = <<>>
                             /\ entity.entities_sent_scrs[k] = <<>>
                             /\ entity.entities_sent_mags[k] = <<>>
                    /\ Defined(result, "entities")
                          => \A j \in 1..Len(result.entities) :
                                LET ent == result.entities[j]
                                IN  /\ ~Defined(ent.sentiment, "score")
                                       => entity.entities_sent_scrs[k][j] = 0
                                    /\ ~Defined(ent.sentiment, "magnitude")
                                       => entity.entities_sent_mags[k][j] = 0

\* C10: calling a flattener function again, on the same shard sequence and
\* table, leaves every column of the table as the first call set it, and
\* ends as the first call did.
C10_FlattenerIdempotent ==
    [][called'[2] => /\ columns' = columns
                     /\ sentiment' = sentiment
                     /\ entity' = entity]_vars

\* Each function has returned, and the one called last was called again.
C10_Witness ==
    /\ called = <<"add_sentiment_data", TRUE>>
    /\ sentiment.status = "returned"
    /\ entity.status = "returned"
    /\ \E r \in 1..Len(df) :
          /\ Column(columns, "sentiment_score")[r] = <<5>>
          /\ Column(columns, "entities")[r] = << <<>> >>
\* A step in which a dispatch begins: the pool of a loop batch, of the
\* single batch of nlp_api.py, or of the final batch is started.
DispatchBegins ==
    /\ pc = "loop_pool" \/ (pc = "scan" /\ pos > Len(df))
    /\ pc' \in {"loop_workers", "drain_workers", "crashed"}

\* C11: whenever a dispatch begins in a run that has dispatched before, at
\* least 60 seconds have passed since the dispatch before it began.
C11_DispatchesAMinuteApart ==
    [][(DispatchBegins /\ since_dispatch # -1)
          => since_dispatch >= RateLimit]_vars

\* C12: a batch dispatched during the scan holds exactly batch_size
\* records, a batch dispatched after the scan holds fewer, and no dispatched
\* batch holds more than batch_size records.
C12_BatchSizes ==
    pc \in {"loop_workers", "drain_workers"} =>
        /\ Len(batch) <= batch_size
        /\ pos <= Len(df) => Len(batch) = batch_size
        /\ pos > Len(df) => Len(batch) < batch_size

\* C13: a step in which a worker pool fails, or which follows the failure
\* of the pool of the current dispatch, does not end the run with an
\* exception.
C13_PoolFailureIsCaught ==
    [][(pool_failed \/ pool_failed') => pc' # "crashed"]_vars

\* C14: within one run the annotation function is invoked at most once per
\* record id, and a record stored as the error sentinel is not among the
\* tasks of any pool.
C14_AtMostOneCallPerRecord ==
    \A id \in Ids :
        /\ calls[id] <= 1
        /\ \A s \in 1..Len(stored_results) :
              (Has(stored_results[s], id)
                 /\ Get(stored_results[s], id) = LanguageError)
                 => id \notin pending

\* A finished run in which a record's call failed in a loop batch, the
\* sentinel was merged, and a later batch was dispatched and annotated
\* another record.
C14_Witness ==
    /\ pc = "done"
    /\ \E a, b \in Ids :
          /\ a < b
          /\ outcome[a] = "api_error" /\ calls[a] = 1
          /\ outcome[b] = "ok" /\ calls[b] = 1
          /\ \E s \in 1..Len(stored_results) :
                /\ Has(stored_results[s], a)
                /\ Get(stored_results[s], a) = LanguageError
          /\ batch_size = 1

\* C15: load_checkpoint on a directory with entries returns one shard per
\* file of the directory, in ascending order of the file names, each the
\* content of its own file, and nothing for an entry that is not a file.
C15_LoadOneShardPerFile ==
    [][(pc = "load" /\ dir_exists /\ ListDir(files, subdirs) # {})
          => LET names == SortedNames(FileNames(files))
             IN  /\ pc' = "scan"
                 /\ stored_results' =
                       [i \in 1..Len(names) |-> ReadFile(files, names[i])]]_vars

\* The records of the batch, as the tasks handed to a pool.
Tasks(b) == {b[i] : i \in 1..Len(b)}

\* C16: the dispatch that begins when the scan has ended is handed exactly
\* the records accumulated since the last dispatched batch; when its workers
\* have all returned, its results are merged into the shard sequence, the
\* last shard is written to its file and call_nl_api returns, without any
\* sleep; no dispatch follows it.
C16_OneFinalDispatch ==
    /\ [][(pc = "scan" /\ pos > Len(df) /\ ~pool_failed')
             => /\ pc' \in {"loop_workers", "drain_workers"}
                /\ pending' = Tasks(batch)
                /\ batch_results' = <<>>]_vars
    /\ [][(pc \in {"loop_workers", "drain_workers"} /\ pos > Len(df)
             /\ pending = {} /\ ~pool_failed)
             => /\ pc' = "done"
                /\ AllKeys(stored_results') =
                      AllKeys(stored_results) \cup Keys(batch_results)
                /\ <<FileName(Len(stored_results')),
                     LastShard(stored_results')>> \in files'
                /\ elapsed' = elapsed
                /\ since_dispatch' = since_dispatch]_vars

\* The shard sequence as a sequence of mappings, without the insertion order.
Mappings(shards) ==
    [s \in 1..Len(shards) |-> {shards[s][i] : i \in 1..Len(shards[s])}]

\* C17: the merge step of a loop batch whose worker pool failed leaves every
\* shard's id-to-result mapping, and the number of shards, as they were.
C17_FailedBatchMergesNothing ==
    [][(pc = "loop_workers" /\ pending = {} /\ pool_failed)
          => Mappings(stored_results') = Mappings(stored_results)]_vars

\* The <<id, result>> entries held by the files of a directory.
OnDisk(fs) == UNION { {f[2][i] : i \in 1..Len(f[2])} : f \in fs }

\* C18: every entry a shard file holds is still held by some shard file
\* after any step of this run or of a later run on the directory, and a file
\* that is written again keeps every id it held.
C18_WrittenResultsStayOnDisk ==
    [][/\ OnDisk(files) \subseteq OnDisk(files')
       /\ \A f \in files : \E g \in files' :
             g[1] = f[1] /\ Keys(f[2]) \subseteq Keys(g[2])]_vars

\* C19: right after every step that writes a shard file, load_checkpoint on
\* the directory returns the shard sequence held in memory (as many shards,
\* in the same order, with the same mappings), and the shard at position k
\* is the content of the file named by the zero-padded k.
C19_DiskMirrorsMemory ==
    [][(IsLoopMerge \/ IsDrainMerge)
          => LET r == load_checkpoint(dir_exists', files', subdirs')
             IN  /\ ~r.raised
                 /\ Mappings(r.shards) = Mappings(stored_results')
                 /\ \A k \in 1..Len(stored_results') :
                       \E f \in files' :
                          /\ f[1] = FileName(k)
                          /\ Mappings(<<f[2]>>) =
                                Mappings(<<stored_results'[k]>>)]_vars

\* load_checkpoint raised: call_nl_api was never entered.
LoadRaised == pc = "crashed" /\ stored_results = <<>>

\* call_nl_api has returned, and every record id of the table is in some
\* shard of the returned sequence and in some file of the directory.
ReturnedComplete ==
    /\ pc = "done"
    /\ \A i \in 1..Len(df) :
          /\ Seen(df[i], stored_results)
          /\ \E f \in files : Has(f[2], df[i])

\* C20: a run of call_nl_api in which no worker raises and no worker pool
\* fails eventually returns with every record id of the table in some shard
\* and in some shard file.
C20_RunReturnsComplete ==
    <>(LoadRaised \/ pool_failed \/ ReturnedComplete)

\* ------------------------------------------------------- worker pools

\* The tasks of the pool that are still to be run or are being run.
Unfinished == pending \cup running

\* The coordinator waits in pool.starmap.
InStarmap == pc \in {"loop_workers", "drain_workers"}

\* C21: worker pools of different batches never overlap in time: the tasks
\* still to be run or running are records of the batch dispatched last, and
\* whenever the coordinator is not waiting in starmap (it scans, merges,
\* persists, sleeps or starts the next batch) no task is left or running,
\* also when a task of the batch has raised.
C21_PoolsNeverOverlap ==
    /\ Unfinished \subseteq Tasks(batch)
    /\ ~InStarmap => Unfinished = {}

\* A task of a loop batch has raised while another task of it is running.
C21_Witness == pc = "loop_workers" /\ pool_failed /\ running # {}

\* What the worker of record id stores when its API call ended as
\* outcome[id] says.
OwnResult(id) ==
    IF outcome[id] = "api_error" THEN LanguageError ELSE ApiResponse(id)

\* Every worker of the dispatched batch has returned.
AllWorkersReturned == InStarmap /\ Unfinished = {} /\ ~pool_failed

\* C22: for every interleaving of the workers of one batch, when all of them
\* have returned the shared results hold exactly one entry per record of the
\* batch, the result (annotation or sentinel) its own worker wrote; and a
\* step of a worker leaves every entry already in the shared results as it
\* was.
C22_OneOwnEntryPerRecord ==
    /\ [](AllWorkersReturned =>
            /\ Len(batch_results) = Len(batch)
            /\ Keys(batch_results) = Tasks(batch)
            /\ \A id \in Tasks(batch) : Get(batch_results, id) = OwnResult(id))
    /\ [][(InStarmap /\ pc' = pc) =>
            \A k \in 1..Len(batch_results) :
                /\ Has(batch_results', batch_results[k][1])
                /\ Get(batch_results', batch_results[k][1])
                       = batch_results[k][2]]_vars

\* The workers of a batch of at least two records have all returned, the
\* second record's worker having stored its result first, one of them the
\* sentinel and another an annotation.
C22_Witness ==
    /\ AllWorkersReturned
    /\ Len(batch) >= 2
    /\ batch_results[1][1] = batch[2]
    /\ \E i, j \in 1..Len(batch_results) :
          /\ batch_results[i][2] = LanguageError
          /\ batch_results[j][2] # LanguageError

\* ------------------------------------------------- flattener and its inputs

\* C23: a call of add_sentiment_data or add_entity_data leaves its inputs as
\* they were: the shard sequence, the rows of the table and the columns of
\* the table passed in.
C23_FlattenerLeavesInputs ==
    [][pc = "flatten" =>
          /\ stored_results' = stored_results
          /\ df' = df
          /\ columns' = columns]_vars

\* ------------------------------------------------------ the two variants

\* The id-to-result pairs the shards hold between them.
Entries(shards) ==
    UNION { {shards[s][i] : i \in 1..Len(shards[s])} : s \in 1..Len(shards) }

\* The records of the table that no loaded shard holds.
Unseen == {df[i] : i \in 1..Len(df)} \ AllKeys(loaded)

\* The records the annotation function was invoked on.
Invoked == {id \in Ids : calls[id] > 0}

\* call_nl_api has ended, by returning or by an exception, after a load that
\* returned, with no worker pool that failed: every worker it needed has
\* stored an annotation or the sentinel.
EndedWithoutFailure ==
    /\ pc \in {"done", "crashed"}
    /\ ~LoadRaised
    /\ ~pool_failed
    /\ \A id \in Unseen : outcome[id] \in {"ok", "api_error"}

\* C24: given the same table, loaded shards, annotation function, batch_size
\* and max_result_size and no pool failure, call_nl_api of nlp_api.py and
\* call_nl_api of call_nlp_api.py do the same: either variant returns, having
\* invoked the annotation function on exactly the records no loaded shard
\* holds, a shard sequence whose overall mapping is the loaded entries and
\* the result of each invoked record.
C24_VariantsAgree ==
    EndedWithoutFailure =>
        /\ pc = "done"
        /\ Invoked = Unseen
        /\ Entries(stored_results)
               = Entries(loaded) \cup {<<id, OwnResult(id)>> : id \in Unseen}

\* ---------------------------------------------------------------- training

\* C25: in train.py's main the dataset is created before its data import
\* starts, and create_model is started only after the import operation has
\* completed and the column specs of every configured column and the time,
\* target, split and weight columns have been set on that dataset.
C25_TrainingAfterImportAndColumns ==
    /\ dataset.import # "none" => dataset.created
    /\ automl_model # "none" =>
          /\ dataset.import = "done"
          /\ dataset.column_specs = model_columns
          /\ dataset.roles = {"time", "target", "split", "weight"}

\* create_model has been started on a dataset with two configured columns
\* or more.
C25_Witness ==
    /\ automl_model # "none"
    /\ Cardinality(model_columns) >= 2

====
